---- MODULE Spec2Model ----
(***************************************************************************)
(* Model of the perplexity-mpc tool servers.                               *)
(*                                                                         *)
(*   python/perplexity_ask/main.py          the "simple" server: the       *)
(*       FileRotatingLogger, perform_chat_completion and handle_call_tool  *)
(*   python_forked/.../perplexity_mcp/server.py   the "forked" server:     *)
(*       call_tool and _call_perplexity_base                               *)
(*                                                                         *)
(* Text is modelled as a sequence of tokens.  The token NL is the newline  *)
(* character; every other token is a newline-free piece of text.  A file   *)
(* is the token sequence of its content.                                   *)
(*                                                                         *)
(* Four specifications share the variables:                                *)
(*   SpecLog      calls of FileRotatingLogger.info/warn/error with file    *)
(*                operations that may fail                                 *)
(*   Spec         tool invocations served by main.py                       *)
(*   SpecForked   tool invocations served by server.py                     *)
(*   SpecConc     invocations of main.py in flight together in one event   *)
(*                loop, sharing the log file                               *)
(***************************************************************************)
EXTENDS Integers, Sequences, FiniteSets, TLC

VARIABLES
    logFile,    \* content of LOG_FILE_PATH (<<>> when absent or empty)
    errOut,     \* what the last step printed to sys.stderr
    logCall,    \* SpecLog: the last log_to_file call (its inputs and outcome)
    phase,      \* "idle", "awaiting" (suspended in the HTTP POST), "done"
    name,       \* tool name of the current invocation
    arguments,  \* arguments of the current invocation
    outbound,   \* request bodies POSTed by the current invocation, in order
    resp,       \* the upstream response the current invocation received
    result,     \* what the call-tool handler handed back to the transport
    trace,      \* events of the current invocation, in order
    conc        \* SpecConc: the invocations in flight and the log calls made

vars == <<logFile, errOut, logCall, phase, name, arguments, outbound, resp,
          result, trace, conc>>

(***************************************************************************)
(* Bounds of the model.                                                    *)
(***************************************************************************)
MaxMsgs == 2        \* longest caller-supplied messages array
MaxCitations == 2   \* longest citations array in an upstream response
MaxMsgLines == 2    \* most lines in one logged message (SpecLog)
MaxCalls == 3       \* invocations started in one run (SpecConc)

\* Every modelled text token stands for this many bytes of text, so that a
\* handful of entries reaches the rotation threshold.
ChunkBytes == 4 * 1024 * 1024

NL == "\n"

(***************************************************************************)
(* Sequence helpers.                                                       *)
(***************************************************************************)
RECURSIVE Flatten(_)
Flatten(ss) == IF ss = <<>> THEN <<>> ELSE Head(ss) \o Flatten(Tail(ss))

IsPrefix(s, t) == Len(s) <= Len(t) /\ SubSeq(t, 1, Len(s)) = s

SeqsUpTo(S, n) == UNION {[1..k -> S] : k \in 0..n}

(***************************************************************************)
(* FileRotatingLogger (main.py 42-94)                                      *)
(***************************************************************************)
MAX_LOG_SIZE_BYTES == 20 * 1024 * 1024

\* LOG_FILE_PATH.stat().st_size
RECURSIVE FileSize(_)
FileSize(f) ==
    IF f = <<>> THEN 0
    ELSE (IF Head(f) = NL THEN 1 ELSE ChunkBytes) + FileSize(Tail(f))

\* content.split("\n"): the pieces between newlines; always at least one
\* piece, and a trailing newline yields a final empty piece.
RECURSIVE SplitLines(_)
SplitLines(content) ==
    IF content = <<>> THEN << <<>> >>
    ELSE LET rest == SplitLines(Tail(content))
         IN  IF Head(content) = NL
             THEN << <<>> >> \o rest
             ELSE << <<Head(content)>> \o Head(rest) >> \o Tail(rest)

\* "\n".join(lines)
RECURSIVE JoinLines(_)
JoinLines(lines) ==
    IF lines = <<>> THEN <<>>
    ELSE IF Len(lines) = 1 THEN Head(lines)
    ELSE Head(lines) \o <<NL>> \o JoinLines(Tail(lines))

\* halfway_point = len(lines) // 2
HalfwayPoint(lines) == Len(lines) \div 2

\* The first half kept instead of the second.
KeptLines_FirstHalf(lines) == SubSeq(lines, 1, HalfwayPoint(lines))

\* lines[halfway_point:]
KeptLines(lines) == SubSeq(lines, HalfwayPoint(lines) + 1, Len(lines))

\* new_content = "\n".join(lines[halfway_point:])
NewContent(content) == JoinLines(KeptLines(SplitLines(content)))

\* The timestamp datetime.now().isoformat() in brackets; its value is not
\* modelled.
TS == "[ts] "

\* log_entry = f"[{timestamp}] {message}\n"
LogEntry(message) == <<TS>> \o message \o <<NL>>

\* The file operations of log_to_file that can raise.
FileOps == {"stat", "read", "rewrite", "overwrite", "append"}

\* What a failed write leaves behind: Path.write_text opens with "w", so the
\* file is either untouched (the open failed) or emptied (the write failed).
WriteFailures == {"intact", "emptied"}
AfterFailedWrite(f, wf) == IF wf = "intact" THEN f ELSE <<>>

\* What a failed append leaves behind: open(..., "a") never truncates, so the
\* old content stays (a partially written entry is not modelled).
AfterFailedAppend(f, entry) == f

\* The result of one log_to_file call: the file afterwards, what was printed
\* to stderr, whether an exception left the call, and the file operations
\* that failed during it.
\* The outer except clause (lines 75-78): prints the message to stderr.
LogFallback(f, message, failed) ==
    [file |-> f, stderr |-> <<"Logging error: ", NL>> \o message \o <<NL>>,
     raised |-> FALSE, failed |-> failed]

LogDone(f, failed) ==
    [file |-> f, stderr |-> <<>>, raised |-> FALSE, failed |-> failed]

\* Lines 72-74: append the entry.
LogAppend(f, message, faults) ==
    IF "append" \in faults
    THEN LogFallback(AfterFailedAppend(f, LogEntry(message)), message,
                     {"append"})
    ELSE LogDone(f \o LogEntry(message), {})

\* The overwrite's own failure escaping the call.
LogOverwrite_Escapes(f, message, faults, wf, first) ==
    IF "overwrite" \in faults
    THEN [file |-> AfterFailedWrite(f, wf), stderr |-> <<>>, raised |-> TRUE,
          failed |-> {first, "overwrite"}]
    ELSE LogDone(LogEntry(message), {first})

\* Lines 67-70: the truncation failed (operation `first`); overwrite the file
\* with the entry and return.
LogOverwrite(f, message, faults, wf, first) ==
    IF "overwrite" \in faults
    THEN LogFallback(AfterFailedWrite(f, wf), message, {first, "overwrite"})
    ELSE LogDone(LogEntry(message), {first})

\* The call over once the file is rewritten, its entry not appended.
LogTruncate_DropsEntry(f, message, faults, wf) ==
    IF "read" \in faults
    THEN LogOverwrite(f, message, faults, wf, "read")
    ELSE IF "rewrite" \in faults
    THEN LogOverwrite(AfterFailedWrite(f, wf), message, faults, wf, "rewrite")
    ELSE LogDone(NewContent(f), {})

\* Lines 57-70: truncate the file to its second half.
LogTruncate(f, message, faults, wf) ==
    IF "read" \in faults
    THEN LogOverwrite(f, message, faults, wf, "read")
    ELSE IF "rewrite" \in faults
    THEN LogOverwrite(AfterFailedWrite(f, wf), message, faults, wf, "rewrite")
    ELSE LogAppend(NewContent(f), message, faults)

\* log_to_file(message); `faults` are the file operations that fail when
\* they are attempted.
LogToFile(f, message, faults, wf) ==
    IF "stat" \in faults
    THEN LogFallback(f, message, {"stat"})
    ELSE IF FileSize(f) >= MAX_LOG_SIZE_BYTES
    THEN LogTruncate(f, message, faults, wf)
    ELSE LogAppend(f, message, faults)

\* info / warn / error prefix the level.
InfoMessage(message) == <<"INFO: ">> \o message
WarnMessage(message) == <<"WARN: ">> \o message
\* `error` is [given, text]: the optional exception and its str().
NoError == [given |-> FALSE, text |-> <<>>]
Exc(text) == [given |-> TRUE, text |-> text]
ErrorMessage(message, error) ==
    <<"ERROR: ">> \o (IF error.given THEN message \o <<": ">> \o error.text
                      ELSE message)

(***************************************************************************)
(* Python values.                                                          *)
(*   arguments   [present, dict]: None is present = FALSE; dict is a       *)
(*               function from the keys it holds to values                 *)
(*   value       [type, items, text]: a list of items, a string (the       *)
(*               tokens of its text) or null                               *)
(*   message     a function from a subset of {"role", "content"}           *)
(***************************************************************************)
ListVal(items) == [type |-> "list", items |-> items, text |-> <<>>]
StrVal(text) == [type |-> "str", items |-> <<>>, text |-> text]
NullVal == [type |-> "null", items |-> <<>>, text |-> <<>>]

\* What iterating over a value yields: the items of a list, the characters
\* (here: tokens) of a string.
Elements(v) == IF v.type = "str" THEN v.text ELSE v.items

\* bool(v): null, the empty list and the empty string are falsy.
TruthyVal(v) == v.type # "null" /\ Elements(v) # <<>>

NoArguments == [present |-> FALSE, dict |-> <<>>]
Args(dict) == [present |-> TRUE, dict |-> dict]

\* bool(arguments): None and the empty dict are falsy.
Truthy(args) == args.present /\ DOMAIN args.dict # {}

\* arguments.get(key, default)
Get(args, key, default) ==
    IF key \in DOMAIN args.dict THEN args.dict[key] ELSE default

\* isinstance(v, list)
IsList(v) == v.type = "list"

\* An upstream response: a transport failure, or an HTTP response with its
\* status, reason phrase, body text (readable or not) and JSON content.
NoResponse ==
    [kind |-> "none", status |-> 0, readable |-> TRUE, parsable |-> FALSE,
     hasContent |-> FALSE, content |-> <<>>, citations |-> NullVal,
     hasCitations |-> FALSE]

\* What an operation hands back: a returned value or a raised exception
\* (value is the returned text, or str() of the exception), and the events
\* it went through, in order.
Returned(value, events) == [raised |-> FALSE, value |-> value, events |-> events]
Raised(value, events) ==
    [raised |-> TRUE, value |-> value,
     events |-> events \o <<[ev |-> "raise", text |-> value]>>]

LogEv(message) == [ev |-> "log", text |-> message]
PostEv == [ev |-> "post", text |-> <<>>]

\* The result handed to the transport: a returned list of content blocks, or
\* an exception that left the handler.
NoResult == [kind |-> "none", content |-> <<>>, error |-> <<>>]
TextResult(text) ==
    [kind |-> "return", content |-> <<[type |-> "text", text |-> text]>>,
     error |-> <<>>]
RaisedResult(error) == [kind |-> "raise", content |-> <<>>, error |-> error]

NoCall ==
    [called |-> FALSE, prior |-> <<>>, message |-> <<>>,
     out |-> LogDone(<<>>, {})]

\* An invocation of SpecConc: where it is suspended, and the outcome of
\* perform_chat_completion it carries while the HTTP client is closed.
IdleCall == [phase |-> "idle", out |-> Returned(<<>>, <<>>)]

\* The invocations that can be in flight together.
Invocations == {"A", "B"}

\* No invocation in flight; `history` is every log entry written so far, in
\* the order the log_to_file calls started, and `last` the latest of them.
NoCalls ==
    [calls |-> [i \in Invocations |-> IdleCall], history |-> <<>>,
     last |-> <<>>, started |-> 0]

Init ==
    /\ conc = NoCalls
    /\ logFile = <<>>
    /\ errOut = <<>>
    /\ logCall = NoCall
    /\ phase = "idle"
    /\ name = ""
    /\ arguments = NoArguments
    /\ outbound = <<>>
    /\ resp = NoResponse
    /\ result = NoResult
    /\ trace = <<>>

(***************************************************************************)
(* Inputs: tool names, arguments and upstream responses.                   *)
(***************************************************************************)
ToolNames ==
    {"perplexity_ask", "perplexity_reason", "perplexity_search", "other_tool"}

\* Messages as a caller may send them: complete ones, and ones lacking a
\* field.
MessageValues ==
    {[role |-> "user", content |-> "Hello"],
     [role |-> "system", content |-> "Be brief"],
     [role |-> "user"],
     [content |-> "Hello"]}

MessageLists == SeqsUpTo(MessageValues, MaxMsgs)

Queries == {"foo"}
Recencies == {"day", "week"}

ArgumentValues ==
    {NoArguments, Args(<<>>)}
    \cup {Args("messages" :> ListVal(ms)) : ms \in MessageLists}
    \cup {Args("messages" :> StrVal(<<"hi">>)), Args("messages" :> NullVal)}
    \cup {Args("query" :> StrVal(<<q>>)) : q \in Queries}
    \cup {Args(("query" :> StrVal(<<q>>)) @@ ("recency" :> StrVal(<<r>>))) :
            q \in Queries, r \in Recencies}
    \cup {Args("recency" :> StrVal(<<r>>)) : r \in Recencies}

Statuses == {200, 204, 302, 500}

\* response.reason_phrase
ReasonPhrase(status) ==
    CASE status = 200 -> "OK"
      [] status = 204 -> "No Content"
      [] status = 302 -> "Found"
      [] status = 500 -> "Internal Server Error"
      [] OTHER -> ""

Contents ==
    {<<"Hi">>, <<"<think>", "plan", "</think>", " ", "kept">>,
     <<"<think>", "plan", "</think>", "kept", NL>>}
CitationUrls == {"http://x", "http://y"}
CitationLists == SeqsUpTo(CitationUrls, MaxCitations)

TransportError ==
    [kind |-> "transport_error", status |-> 0, readable |-> TRUE,
     parsable |-> FALSE, hasContent |-> FALSE, content |-> <<>>,
     citations |-> NullVal, hasCitations |-> FALSE]

\* The JSON bodies: unparsable, parsable without choices[0].message.content,
\* and with content and a citations field that is absent, a list, null or a
\* string.
PlainBodies ==
    {[parsable |-> FALSE, hasContent |-> FALSE, content |-> <<>>,
      hasCitations |-> FALSE, citations |-> NullVal],
     [parsable |-> TRUE, hasContent |-> FALSE, content |-> <<>>,
      hasCitations |-> FALSE, citations |-> NullVal],
     [parsable |-> TRUE, hasContent |-> TRUE, content |-> <<"Hi">>,
      hasCitations |-> FALSE, citations |-> NullVal]}

CitedBodies ==
    {[parsable |-> TRUE, hasContent |-> TRUE, content |-> c,
      hasCitations |-> TRUE, citations |-> v] :
        c \in Contents,
        v \in {ListVal(cs) : cs \in CitationLists}
              \cup {NullVal, StrVal(<<"a", "b">>)}}
    \cup {[parsable |-> TRUE, hasContent |-> TRUE, content |-> c,
           hasCitations |-> FALSE, citations |-> NullVal] : c \in Contents}

WithBody(status, readable, b) ==
    [kind |-> "http", status |-> status, readable |-> readable,
     parsable |-> b.parsable, hasContent |-> b.hasContent,
     content |-> b.content, citations |-> b.citations,
     hasCitations |-> b.hasCitations]

Responses ==
    {TransportError}
    \cup {WithBody(st, rd, b) :
            st \in Statuses \ {200}, rd \in BOOLEAN, b \in PlainBodies}
    \cup {WithBody(200, TRUE, b) : b \in PlainBodies \cup CitedBodies}

(***************************************************************************)
(* perform_chat_completion (main.py 165-259)                               *)
(***************************************************************************)
DefaultModel == "sonar-pro"
ReasoningModel == "sonar-reasoning-pro"

\* str() of the exceptions raised by the HTTP client and the JSON parser.
TransportErrorText == "ConnectError"
ParseErrorText == "JSONDecodeError"
BodyText == "<body>"

\* The first message left out of the request.
RequestBody_DropsFirst(messages, model) ==
    [model |-> model,
     messages |-> IF messages = <<>> THEN <<>> ELSE Tail(messages)]

\* Lines 186-191: the request body.
RequestBody(messages, model) == [model |-> model, messages |-> messages]

\* Lines 196-198 and the POST of lines 202-210.
SendRequest(messages, model) ==
    <<LogEv(InfoMessage(<<"Sending request to Perplexity API with ",
                          ToString(Len(messages)), " messages using model ",
                          model>>)),
      PostEv>>

\* Lines 255-257: the citations block.
CitationLines(citations) ==
    Flatten([i \in 1..Len(citations) |->
                <<"[", ToString(i), "] ", citations[i], NL>>])

AppendCitations(content, citations) ==
    content \o <<NL, NL, "Citations:", NL>> \o CitationLines(citations)

\* Lines 246-251: "citations" in data, a list, and not empty.
HasCitations(r) ==
    r.hasCitations /\ IsList(r.citations) /\ r.citations.items # <<>>

\* Lines 231-259: parse the JSON body, extract the content, add citations.
ParseResponse(r) ==
    IF ~r.parsable
    THEN Raised(<<"Failed to parse JSON response from Perplexity API: ",
                  ParseErrorText>>,
                <<LogEv(ErrorMessage(
                    <<"Failed to parse JSON response from Perplexity API">>,
                    Exc(<<ParseErrorText>>)))>>)
    ELSE LET parsed == <<LogEv(InfoMessage(
                 <<"Successfully received and parsed response from Perplexity API">>))>>
         IN  IF ~r.hasContent
             THEN Raised(<<"'choices'">>, parsed)
             ELSE IF HasCitations(r)
             THEN Returned(AppendCitations(r.content, r.citations.items),
                           parsed \o <<LogEv(InfoMessage(
                               <<"Adding ", ToString(Len(r.citations.items)),
                                 " citations to response">>))>>)
             ELSE Returned(r.content, parsed)

\* Line 218: the status that counts as success.
IsSuccessStatus(status) == status = 200

\* Lines 219-222: response.text, or the placeholder.
ErrorText(r) ==
    IF r.readable THEN BodyText ELSE "Unable to parse error response"

\* Lines 217-229: a non-successful status is logged, then raised.
CheckStatus(r) ==
    IF ~IsSuccessStatus(r.status)
    THEN LET msg == <<"Perplexity API error: ", ToString(r.status), " ",
                      ReasonPhrase(r.status), NL, ErrorText(r)>>
         IN  Raised(msg, <<LogEv(ErrorMessage(msg, NoError))>>)
    ELSE ParseResponse(r)

\* Lines 211-215 and on: what perform_chat_completion does once the POST
\* has returned or failed.
AfterPost(r) ==
    IF r.kind = "transport_error"
    THEN Raised(<<"Network error while calling Perplexity API: ",
                  TransportErrorText>>,
                <<LogEv(ErrorMessage(
                    <<"Network error while calling Perplexity API">>,
                    Exc(<<TransportErrorText>>)))>>)
    ELSE CheckStatus(r)

(***************************************************************************)
(* handle_call_tool (main.py 290-367)                                      *)
(***************************************************************************)
\* The handler up to its suspension in the POST: either it is over (out), or
\* a request has been sent (body).
Stop(out) == [sent |-> FALSE, out |-> out, body |-> RequestBody(<<>>, "")]
Send(messages, model, events) ==
    [sent |-> TRUE, out |-> Returned(<<>>, events),
     body |-> RequestBody(messages, model)]

\* The isinstance check left out.
MessagesTool_Unchecked(nm, args, model) ==
    LET messages == Get(args, "messages", NullVal).items
    IN  Send(messages, model,
             <<LogEv(InfoMessage(<<"Processing ", nm, " tool call with ",
                                   ToString(Len(messages)), " messages">>))>>
             \o SendRequest(messages, model))

\* Lines 299-311 and 322-337: the two tools that take `messages`.
MessagesTool(nm, args, model) ==
    IF ~IsList(Get(args, "messages", NullVal))
    THEN LET msg == <<"Invalid arguments for ", nm,
                      ": 'messages' must be an array">>
         IN  Stop(Raised(msg, <<LogEv(ErrorMessage(msg, NoError))>>))
    ELSE LET messages == args.dict["messages"].items
         IN  Send(messages, model,
                  <<LogEv(InfoMessage(<<"Processing ", nm, " tool call with ",
                                        ToString(Len(messages)), " messages">>))>>
                  \o SendRequest(messages, model))

\* Lines 293-356: the try block up to the POST.
HandleStart(nm, args) ==
    IF ~Truthy(args)
    THEN Stop(Raised(<<"No arguments provided">>,
                     <<LogEv(ErrorMessage(
                         <<"No arguments provided for tool call">>, NoError))>>))
    ELSE IF nm = "perplexity_ask"
    THEN MessagesTool(nm, args, DefaultModel)
    ELSE IF nm = "perplexity_reason"
    THEN MessagesTool(nm, args, ReasoningModel)
    ELSE Stop(Returned(<<"Unknown tool: ", nm>>,
                       <<LogEv(ErrorMessage(<<"Unknown tool requested: ", nm>>,
                                            NoError))>>))

\* Lines 312-319, 338-345 and 358-367: a returned text is wrapped in one text
\* block; an exception is logged and wrapped as "Error: <message>".
HandlerCatch(out) ==
    IF out.raised
    THEN [result |-> TextResult(<<"Error: ">> \o out.value),
          events |-> out.events \o
                     <<LogEv(ErrorMessage(<<"Error processing tool call">>,
                                          Exc(out.value)))>>]
    ELSE [result |-> TextResult(out.value), events |-> out.events]

\* The log calls among `events`, applied to the file in order.  The
\* dispatcher is modelled on a file system whose operations succeed; SpecLog
\* covers the failing ones.
RECURSIVE WriteLogs(_, _)
WriteLogs(log, events) ==
    IF events = <<>> THEN log
    ELSE IF Head(events).ev # "log" THEN WriteLogs(log, Tail(events))
    ELSE LET out == LogToFile(log.file, Head(events).text, {}, "intact")
         IN  WriteLogs([file |-> out.file, stderr |-> log.stderr \o out.stderr],
                       Tail(events))

(***************************************************************************)
(* _call_perplexity_base and call_tool (server.py 151-230)                 *)
(***************************************************************************)
ForkedSearchModel == "sonar"
ForkedReasoningModel == "sonar-reasoning"

\* Line 177: "reasoning" in model
IsReasoningModel(model) == model \in {"sonar-reasoning", "sonar-reasoning-pro"}

\* The recency of the call ignored in favour of the default.
Payload_FixedRecency(query, recency, model) ==
    [model |-> model,
     messages |-> <<[role |-> "system", content |-> <<"Be precise and concise.">>],
                    [role |-> "user", content |-> query.text]>>,
     max_tokens |-> IF IsReasoningModel(model) THEN "4000" ELSE "2000",
     search_recency_filter |-> <<"month">>]

\* Lines 179-197: the payload (its fixed sampling parameters other than
\* max_tokens are left out).
Payload(query, recency, model) ==
    [model |-> model,
     messages |-> <<[role |-> "system", content |-> <<"Be precise and concise.">>],
                    [role |-> "user", content |-> query.text]>>,
     max_tokens |-> IF IsReasoningModel(model) THEN "4000" ELSE "2000",
     search_recency_filter |-> recency.text]

\* Lines 213-215: "\n\nCitations:\n" + "\n".join(f"[{i + 1}] {url}" ...)
ForkedCitations(citations) ==
    <<NL, NL, "Citations:", NL>>
    \o JoinLines([i \in 1..Len(citations) |->
                    <<"[", ToString(i), "] ", citations[i]>>])

\* Line 206: response.raise_for_status() raises for 400 and above.
RaiseForStatus(status) == status >= 400

\* Lines 205-218: what _call_perplexity_base does once the POST has returned
\* or failed.
ForkedAfterPost(r) ==
    IF r.kind = "transport_error"
    THEN Raised(<<TransportErrorText>>, <<>>)
    ELSE IF RaiseForStatus(r.status)
    THEN Raised(<<ToString(r.status), ", message='", ReasonPhrase(r.status),
                  "'">>, <<>>)
    ELSE IF ~r.parsable
    THEN Raised(<<ParseErrorText>>, <<>>)
    ELSE IF ~r.hasContent
    THEN Raised(<<"'choices'">>, <<>>)
    ELSE LET citations == IF r.hasCitations THEN r.citations ELSE ListVal(<<>>)
         IN  IF TruthyVal(citations)
             THEN Returned(r.content \o ForkedCitations(Elements(citations)), <<>>)
             ELSE Returned(r.content, <<>>)

\* re.sub(r"<think>.*?</think>", "", text, flags=re.DOTALL): every span from
\* a "<think>" to the first "</think>" after it is removed.
RECURSIVE AfterClose(_)
AfterClose(text) ==
    IF text = <<>> THEN <<>>
    ELSE IF Head(text) = "</think>" THEN Tail(text)
    ELSE AfterClose(Tail(text))

HasClose(text) == \E i \in 1..Len(text) : text[i] = "</think>"

RECURSIVE RemoveThink(_)
RemoveThink(text) ==
    IF text = <<>> THEN <<>>
    ELSE IF Head(text) = "<think>" /\ HasClose(Tail(text))
    THEN RemoveThink(AfterClose(Tail(text)))
    ELSE <<Head(text)>> \o RemoveThink(Tail(text))

\* str.strip(): leading and trailing whitespace removed.
Whitespace == {" ", NL}

RECURSIVE LStrip(_)
LStrip(text) ==
    IF text # <<>> /\ Head(text) \in Whitespace THEN LStrip(Tail(text))
    ELSE text

RECURSIVE RStrip(_)
RStrip(text) ==
    IF text # <<>> /\ text[Len(text)] \in Whitespace
    THEN RStrip(SubSeq(text, 1, Len(text) - 1))
    ELSE text

Strip(text) == RStrip(LStrip(text))

\* Lines 164-167
CleanedResult(raw) == Strip(RemoveThink(raw))

\* Lines 156-158 and 161-163: the query and the recency of a tool call, then
\* the request.
QueryTool(args, model) ==
    IF ~args.present
    THEN Stop(Raised(<<"'NoneType' object is not subscriptable">>, <<>>))
    ELSE IF "query" \notin DOMAIN args.dict
    THEN Stop(Raised(<<"'query'">>, <<>>))
    ELSE [sent |-> TRUE, out |-> Returned(<<>>, <<PostEv>>),
          body |-> Payload(args.dict["query"],
                           Get(args, "recency", StrVal(<<"month">>)), model)]

\* Lines 155-169: call_tool up to the POST.
ForkedStart(nm, args) ==
    IF nm = "perplexity_search" THEN QueryTool(args, ForkedSearchModel)
    ELSE IF nm = "perplexity_reason" THEN QueryTool(args, ForkedReasoningModel)
    ELSE Stop(Raised(<<"Tool not found: ", nm>>, <<>>))

\* Lines 159 and 164-168: the returned text, cleaned for perplexity_reason.
ForkedText(nm, raw) == IF nm = "perplexity_reason" THEN CleanedResult(raw) ELSE raw

\* call_tool has no except clause: an exception leaves the handler.
ForkedFinish(nm, out) ==
    IF out.raised THEN RaisedResult(out.value)
    ELSE TextResult(ForkedText(nm, out.value))

(***************************************************************************)
(* SpecLog: the logger on its own.                                         *)
(***************************************************************************)
\* Messages of one to MaxMsgLines lines; every line reads "a", so entries
\* differ in their level, their error suffix and their number of lines.
LogMessages ==
    {JoinLines([i \in 1..k |-> <<"a">>]) : k \in 1..MaxMsgLines}

\* The file operations that fail when attempted, with what a failed write
\* leaves behind.  The first failure of the try block ends it, and only the
\* overwrite of the inner except clause can fail after another failure, so
\* these cases produce every outcome a set of failing operations can.
FaultCases ==
    {[ops |-> {}, wf |-> "intact"], [ops |-> {"stat"}, wf |-> "intact"],
     [ops |-> {"read"}, wf |-> "intact"], [ops |-> {"append"}, wf |-> "intact"]}
    \cup [ops : {{"rewrite"}, {"read", "overwrite"}, {"rewrite", "overwrite"}},
          wf : WriteFailures]

dispatcherVars == <<phase, name, arguments, outbound, resp, result, trace>>

\* One call of log_to_file, recorded in logCall.
Record(message, fc) ==
    LET out == LogToFile(logFile, message, fc.ops, fc.wf)
    IN  /\ logFile' = out.file
        /\ errOut' = out.stderr
        /\ logCall' = [called |-> TRUE, prior |-> logFile,
                       message |-> message, out |-> out]
        /\ UNCHANGED dispatcherVars
        /\ UNCHANGED conc

Info == \E m \in LogMessages, fc \in FaultCases : Record(InfoMessage(m), fc)

Warn == \E m \in LogMessages, fc \in FaultCases : Record(WarnMessage(m), fc)

Error ==
    \E m \in LogMessages, e \in {NoError, Exc(<<"e">>)}, fc \in FaultCases :
        Record(ErrorMessage(m, e), fc)

NextLog == Info \/ Warn \/ Error

SpecLog == Init /\ [][NextLog]_vars

(***************************************************************************)
(* Spec: tool invocations served by main.py, one at a time.  An invocation *)
(* suspends only in the HTTP POST.                                         *)
(***************************************************************************)
\* The step's log calls reach the file; the rest of the step is in the
\* other conjuncts.
LogStep(events) ==
    LET log == WriteLogs([file |-> logFile, stderr |-> <<>>], events)
    IN  /\ logFile' = log.file
        /\ errOut' = log.stderr
        /\ UNCHANGED <<logCall, conc>>

\* The transport calls handle_call_tool(name, arguments); the handler runs
\* until it returns or suspends in the POST.
CallTool ==
    \E nm \in ToolNames, args \in ArgumentValues :
        LET st == HandleStart(nm, args)
            fin == HandlerCatch(st.out)
        IN  /\ phase = "idle"
            /\ name' = nm
            /\ arguments' = args
            /\ resp' = NoResponse
            /\ IF st.sent
               THEN /\ phase' = "awaiting"
                    /\ outbound' = <<st.body>>
                    /\ result' = NoResult
                    /\ trace' = st.out.events
                    /\ LogStep(st.out.events)
               ELSE /\ phase' = "done"
                    /\ outbound' = <<>>
                    /\ result' = fin.result
                    /\ trace' = fin.events
                    /\ LogStep(fin.events)

\* The POST returns or fails; the handler runs to its end.
PostReturns ==
    \E r \in Responses :
        LET fin == HandlerCatch(AfterPost(r))
        IN  /\ phase = "awaiting"
            /\ phase' = "done"
            /\ resp' = r
            /\ result' = fin.result
            /\ trace' = trace \o fin.events
            /\ LogStep(fin.events)
            /\ UNCHANGED <<name, arguments, outbound>>

\* The transport takes the result; the server is ready for the next call.
Deliver ==
    /\ phase = "done"
    /\ phase' = "idle"
    /\ name' = ""
    /\ arguments' = NoArguments
    /\ outbound' = <<>>
    /\ resp' = NoResponse
    /\ result' = NoResult
    /\ trace' = <<>>
    /\ errOut' = <<>>
    /\ UNCHANGED <<logFile, logCall, conc>>

Next == CallTool \/ PostReturns \/ Deliver

Spec == Init /\ [][Next]_vars

(***************************************************************************)
(* SpecForked: tool invocations served by server.py.  It keeps no log file.*)
(***************************************************************************)
ForkedCallTool ==
    \E nm \in ToolNames, args \in ArgumentValues :
        LET st == ForkedStart(nm, args)
        IN  /\ phase = "idle"
            /\ name' = nm
            /\ arguments' = args
            /\ resp' = NoResponse
            /\ trace' = st.out.events
            /\ IF st.sent
               THEN /\ phase' = "awaiting"
                    /\ outbound' = <<st.body>>
                    /\ result' = NoResult
               ELSE /\ phase' = "done"
                    /\ outbound' = <<>>
                    /\ result' = ForkedFinish(nm, st.out)
            /\ UNCHANGED <<logFile, errOut, logCall, conc>>

ForkedPostReturns ==
    \E r \in Responses :
        LET out == ForkedAfterPost(r)
        IN  /\ phase = "awaiting"
            /\ phase' = "done"
            /\ resp' = r
            /\ result' = ForkedFinish(name, out)
            /\ trace' = trace \o out.events
            /\ UNCHANGED <<name, arguments, outbound, logFile, errOut, logCall,
                           conc>>

NextForked == ForkedCallTool \/ ForkedPostReturns \/ Deliver

SpecForked == Init /\ [][NextForked]_vars

(***************************************************************************)
(* SpecConc: invocations served by main.py in one event loop.  A coroutine *)
(* runs until it suspends: log_to_file (lines 46-78) holds no await, so a  *)
(* log call never suspends; an invocation suspends in the POST (line 202)  *)
(* and may suspend once more when the `async with` block closes the HTTP   *)
(* client (line 200), after perform_chat_completion's own log calls and    *)
(* before the handler's except clause.  The file system is healthy.        *)
(***************************************************************************)
ConcToolNames == {"perplexity_ask", "other_tool"}

ConcArguments ==
    {NoArguments,
     Args("messages" :> ListVal(<<[role |-> "user", content |-> "Hello"]>>))}

ConcResponses ==
    {TransportError,
     WithBody(500, TRUE,
              [parsable |-> FALSE, hasContent |-> FALSE, content |-> <<>>,
               hasCitations |-> FALSE, citations |-> NullVal]),
     WithBody(200, TRUE,
              [parsable |-> TRUE, hasContent |-> TRUE, content |-> <<"Hi">>,
               hasCitations |-> TRUE, citations |-> ListVal(<<"http://x">>)])}

\* The entries of the log calls among `events`, in order.
LoggedEntries(events) ==
    LET logs == SelectSeq(events, LAMBDA e : e.ev = "log")
    IN  [i \in 1..Len(logs) |-> LogEntry(logs[i].text)]

\* One uninterrupted run of a coroutine: its log calls reach the file one
\* after the other, and are noted in conc.history.
ConcLogStep(calls, started, events) ==
    LET log == WriteLogs([file |-> logFile, stderr |-> <<>>], events)
        entries == LoggedEntries(events)
    IN  /\ logFile' = log.file
        /\ errOut' = log.stderr
        /\ conc' = [calls |-> calls,
                    history |-> conc.history \o Flatten(entries),
                    last |-> IF entries = <<>> THEN conc.last
                             ELSE entries[Len(entries)],
                    started |-> started]
        /\ UNCHANGED <<logCall, dispatcherVars>>

\* The transport starts handle_call_tool for one more invocation; it runs
\* until it returns or suspends in the POST.
ConcCallTool ==
    \E i \in Invocations, nm \in ConcToolNames, args \in ConcArguments :
        LET st == HandleStart(nm, args)
        IN  /\ conc.calls[i].phase = "idle"
            /\ conc.started < MaxCalls
            /\ IF st.sent
               THEN ConcLogStep(
                        [conc.calls EXCEPT ![i] = [phase |-> "awaiting",
                                                   out |-> st.out]],
                        conc.started + 1, st.out.events)
               ELSE ConcLogStep(conc.calls, conc.started + 1,
                                HandlerCatch(st.out).events)

\* The POST of an invocation returns or fails; perform_chat_completion runs
\* to its return or raise, and the client is closed.
ConcPostReturns ==
    \E i \in Invocations, r \in ConcResponses :
        LET out == AfterPost(r)
        IN  /\ conc.calls[i].phase = "awaiting"
            /\ ConcLogStep(
                   [conc.calls EXCEPT ![i] = [phase |-> "closing",
                                              out |-> [out EXCEPT !.events = <<>>]]],
                   conc.started, out.events)

\* The client is closed; the handler runs to its end.
ConcClose ==
    \E i \in Invocations :
        /\ conc.calls[i].phase = "closing"
        /\ ConcLogStep([conc.calls EXCEPT ![i] = IdleCall], conc.started,
                       HandlerCatch(conc.calls[i].out).events)

NextConc == ConcCallTool \/ ConcPostReturns \/ ConcClose

SpecConc == Init /\ [][NextConc]_vars

(***************************************************************************)
(* Vocabulary of the properties.                                           *)
(***************************************************************************)
Done == phase = "done"
InFlight == phase \in {"awaiting", "done"}

\* The result is a normal return holding exactly one text block.
OneTextBlock ==
    /\ result.kind = "return"
    /\ Len(result.content) = 1
    /\ result.content[1].type = "text"

ResultText == result.content[1].text

\* The single text block reads "Error: <message>".
ErrorTextOf(message) == OneTextBlock /\ ResultText = <<"Error: ">> \o message

IsErrorText == OneTextBlock /\ IsPrefix(<<"Error: ">>, ResultText)

Mentions(text, word) == \E i \in 1..Len(text) : text[i] = word

NoRequestSent ==
    /\ outbound = <<>>
    /\ \A i \in 1..Len(trace) : trace[i].ev # "post"

Is2xx(status) == status >= 200 /\ status <= 299

\* The ways the completion call fails.
TransportFailed == resp.kind = "transport_error"
StatusFailed == resp.kind = "http" /\ ~Is2xx(resp.status)
BodyUnparsable == resp.kind = "http" /\ Is2xx(resp.status) /\ ~resp.parsable
ContentMissing ==
    resp.kind = "http" /\ Is2xx(resp.status) /\ resp.parsable /\ ~resp.hasContent
CompletionFailed ==
    TransportFailed \/ StatusFailed \/ BodyUnparsable \/ ContentMissing

\* The messages value the caller supplied.
SuppliedMessages == Get(arguments, "messages", NullVal)

(***************************************************************************)
(* C1.  Whenever the completion call of an invocation fails (transport     *)
(* failure, non-2xx status, unparsable body, no choices[0].message.content)*)
(* the handler returns normally with exactly one text block that reads     *)
(* "Error: <message>"; the failure never leaves the handler.               *)
(* Holds of main.py (Spec); server.py's call_tool has no except clause.    *)
(***************************************************************************)
C1_FailureBecomesErrorText ==
    (Done /\ CompletionFailed) => IsErrorText

(***************************************************************************)
(* C2.  For a tool name outside the supported set, whatever the arguments  *)
(* (absent and empty included), the handler returns normally with a text   *)
(* that mentions the unknown name.                                         *)
(***************************************************************************)
SupportedTools == {"perplexity_ask", "perplexity_reason", "perplexity_search"}

C2_UnknownToolNamed ==
    (Done /\ name \notin SupportedTools) =>
        (OneTextBlock /\ Mentions(ResultText, name))

(***************************************************************************)
(* C3.  For perplexity_ask and perplexity_reason in main.py: when the      *)
(* arguments hold no `messages` or a `messages` that is not an array, the  *)
(* result is an error text with a validation message, and the invocation   *)
(* sends no HTTP request at any point.                                     *)
(***************************************************************************)
ValidationMessages ==
    {<<"No arguments provided">>,
     <<"Invalid arguments for ", name, ": 'messages' must be an array">>}

C3_NoMessagesNoRequest ==
    (phase # "idle" /\ name \in {"perplexity_ask", "perplexity_reason"}
       /\ ~IsList(SuppliedMessages)) =>
        /\ Done
        /\ \E m \in ValidationMessages : ErrorTextOf(m)
        /\ NoRequestSent

C3_Witness ==
    /\ Done
    /\ name = "perplexity_reason"
    /\ arguments = Args("messages" :> StrVal(<<"hi">>))
    /\ ErrorTextOf(<<"Invalid arguments for ", "perplexity_reason",
                     ": 'messages' must be an array">>)
    /\ NoRequestSent

(***************************************************************************)
(* C4.  For every tool name, when the arguments are absent the invocation  *)
(* fails with the "No arguments provided" validation error before any      *)
(* tool-specific check or name dispatch, and sends no HTTP request.        *)
(* Holds of main.py (Spec); server.py's call_tool does not check.          *)
(***************************************************************************)
C4_AbsentArgumentsFailFirst ==
    (phase # "idle" /\ ~arguments.present) =>
        /\ Done
        /\ ErrorTextOf(<<"No arguments provided">>)
        /\ trace # <<>>
        /\ trace[1] = LogEv(ErrorMessage(
                          <<"No arguments provided for tool call">>, NoError))
        /\ NoRequestSent

(***************************************************************************)
(* C5.  For perplexity_ask, a `messages` array that is empty or holds an   *)
(* element without `role` or without `content` is rejected with a          *)
(* validation error and never forwarded.                                   *)
(***************************************************************************)
WellFormed(m) == {"role", "content"} \subseteq DOMAIN m

MalformedMessages ==
    /\ IsList(SuppliedMessages)
    /\ \/ SuppliedMessages.items = <<>>
       \/ \E i \in 1..Len(SuppliedMessages.items) :
            ~WellFormed(SuppliedMessages.items[i])

C5_MalformedMessagesRejected ==
    (phase # "idle" /\ name = "perplexity_ask" /\ MalformedMessages) =>
        (Done /\ IsErrorText /\ NoRequestSent)

(***************************************************************************)
(* C6.  Every perplexity_ask or perplexity_reason invocation that reaches  *)
(* the remote API sends one request whose `messages` is exactly the        *)
(* caller-supplied sequence: same length, order and elements.              *)
(***************************************************************************)
C6_MessagesForwardedVerbatim ==
    (InFlight /\ outbound # <<>>) =>
        /\ name \in {"perplexity_ask", "perplexity_reason"}
        /\ Len(outbound) = 1
        /\ Len(outbound[1].messages) = Len(SuppliedMessages.items)
        /\ \A i \in 1..Len(SuppliedMessages.items) :
             outbound[1].messages[i] = SuppliedMessages.items[i]

C6_Witness ==
    /\ phase = "awaiting"
    /\ Len(outbound) = 1
    /\ Len(outbound[1].messages) = 2
    /\ outbound[1].messages[1] # outbound[1].messages[2]
    /\ outbound[1].messages = SuppliedMessages.items

(***************************************************************************)
(* C7.  For a successful response with content C and a citations array of  *)
(* length N: when N >= 1 the returned text is C, the "Citations:" header,  *)
(* then the N lines "[i] <citation_i>" in order, each ended by a newline   *)
(* and nothing after; when citations are absent or empty the text is C.    *)
(* Holds of main.py (Spec); server.py joins the lines with newlines and    *)
(* leaves the last one open.  Stated for the tools that return the         *)
(* completion text as it is (server.py cleans perplexity_reason's text)    *)
(* and for a citations field that is an array when present.                *)
(***************************************************************************)
SuccessWithContent ==
    /\ resp.kind = "http" /\ resp.status = 200
    /\ resp.parsable /\ resp.hasContent
    /\ (resp.hasCitations => IsList(resp.citations))

ExpectedCitationLine(i, citation) == <<"[", ToString(i), "] ", citation, NL>>

ExpectedText ==
    LET cs == IF resp.hasCitations THEN resp.citations.items ELSE <<>>
    IN  IF cs = <<>> THEN resp.content
        ELSE resp.content \o <<NL, NL, "Citations:", NL>>
             \o Flatten([i \in 1..Len(cs) |-> ExpectedCitationLine(i, cs[i])])

C7_CitationsBlock ==
    (Done /\ SuccessWithContent /\ name # "perplexity_reason") =>
        (OneTextBlock /\ ResultText = ExpectedText)

(***************************************************************************)
(* C10.  The completion call treats every 2xx status as success and fails  *)
(* with an upstream error exactly when the status is outside 2xx; the      *)
(* error carries the status code, the reason phrase and the raw body (or a *)
(* placeholder), and is logged before it is raised.                        *)
(***************************************************************************)
\* The text of the upstream error for the response received.
UpstreamErrorText ==
    <<"Perplexity API error: ", ToString(resp.status), " ",
      ReasonPhrase(resp.status), NL,
      IF resp.readable THEN BodyText ELSE "Unable to parse error response">>

\* The upstream error was raised, and logged at ERROR before that.
UpstreamErrorRaised ==
    \E j \in 1..Len(trace) :
        /\ trace[j] = [ev |-> "raise", text |-> UpstreamErrorText]
        /\ \E i \in 1..(j - 1) :
             trace[i] = LogEv(ErrorMessage(UpstreamErrorText, NoError))

UpstreamErrorReported ==
    \E j \in 1..Len(trace) :
        trace[j].ev = "raise"
        /\ IsPrefix(<<"Perplexity API error: ">>, trace[j].text)

C10_Every2xxSucceeds ==
    (Done /\ resp.kind = "http") =>
        /\ Is2xx(resp.status) => ~UpstreamErrorReported
        /\ ~Is2xx(resp.status) => UpstreamErrorRaised

(***************************************************************************)
(* Properties of the logger, stated of the last log_to_file call of        *)
(* SpecLog: logCall.prior is the file before it, logFile the file after.   *)
(***************************************************************************)
\* The second half of the prior content's lines, as the claim describes it:
\* from index floor(n / 2) (counting from 0) to the end, in order.
RetainedLines ==
    LET lines == SplitLines(logCall.prior)
    IN  SubSeq(lines, (Len(lines) \div 2) + 1, Len(lines))

RemovedLines ==
    LET lines == SplitLines(logCall.prior)
    IN  SubSeq(lines, 1, Len(lines) \div 2)

AtThreshold == FileSize(logCall.prior) >= MAX_LOG_SIZE_BYTES

\* The call checked the size and found the file at or above the threshold.
CompactionDue == AtThreshold /\ "stat" \notin logCall.out.failed

\* Existing content was removed: the prior content no longer starts the file.
RemovedContent == ~IsPrefix(logCall.prior, logFile)

PrintedToStderr ==
    errOut = <<"Logging error: ", NL>> \o logCall.message \o <<NL>>

CleanedContent == Strip(RemoveThink(resp.content))

\* The citation block that follows unstripped content.
CitationBlocks ==
    LET cs == IF resp.hasCitations THEN resp.citations.items ELSE <<>>
        block == <<NL, NL, "Citations:", NL>>
                 \o Flatten([i \in 1..Len(cs) |-> ExpectedCitationLine(i, cs[i])])
    IN  IF cs = <<>> THEN {<<>>}
        ELSE {block, SubSeq(block, 1, Len(block) - 1)}

HasThinkSpan(text) ==
    \E i, j \in 1..Len(text) :
        i < j /\ text[i] = "<think>" /\ text[j] = "</think>"

C11_ThinkStrippedBeforeCitations ==
    (Done /\ SuccessWithContent /\ name = "perplexity_reason") =>
        /\ OneTextBlock
        /\ \E b \in CitationBlocks : ResultText = CleanedContent \o b
        /\ ~HasThinkSpan(ResultText)


(***************************************************************************)
(* C12.  For every perplexity_search invocation with a query q and an      *)
(* optional recency r: the one outbound request carries exactly the two    *)
(* messages [system "Be precise and concise.", user q], in that order, and *)
(* its recency parameter is r when r is supplied and "month" when it is    *)
(* omitted.                                                                *)
(***************************************************************************)
HasQuery == arguments.present /\ "query" \in DOMAIN arguments.dict

RecencySupplied == arguments.present /\ "recency" \in DOMAIN arguments.dict

C12_SearchRequest ==
    (phase # "idle" /\ name = "perplexity_search" /\ HasQuery) =>
        /\ Len(outbound) = 1
        /\ Len(outbound[1].messages) = 2
        /\ outbound[1].messages[1] =
               [role |-> "system", content |-> <<"Be precise and concise.">>]
        /\ outbound[1].messages[2] =
               [role |-> "user", content |-> arguments.dict["query"].text]
        /\ RecencySupplied =>
               outbound[1].search_recency_filter = arguments.dict["recency"].text
        /\ ~RecencySupplied => outbound[1].search_recency_filter = <<"month">>

C12_Witness ==
    /\ phase = "awaiting"
    /\ name = "perplexity_search"
    /\ arguments = Args(("query" :> StrVal(<<"foo">>))
                        @@ ("recency" :> StrVal(<<"week">>)))
    /\ Len(outbound) = 1
    /\ outbound[1].search_recency_filter = <<"week">>

(***************************************************************************)
(* C13.  Every tool invocation issues at most one outbound HTTP request.   *)
(* Once the request has met a transport failure, a status outside 2xx or   *)
(* an unparsable body, the invocation is over with that one request sent   *)
(* and a failure reported to the caller (an error text or a raised         *)
(* exception).                                                             *)
(* The one-request part holds of both servers; main.py reports all three   *)
(* failures (Spec); server.py takes a 3xx answer for a success.            *)
(***************************************************************************)
PostCount == Cardinality({i \in 1..Len(trace) : trace[i].ev = "post"})

AtMostOneRequest == Len(outbound) <= 1 /\ PostCount <= 1

RequestFailed == TransportFailed \/ StatusFailed \/ BodyUnparsable

\* The caller is told of a failure: an error text, or an exception that left
\* the handler.
FailureReported == IsErrorText \/ result.kind = "raise"

C13_OneRequestFailureReported ==
    /\ AtMostOneRequest
    /\ (resp # NoResponse /\ RequestFailed) =>
           (Done /\ Len(outbound) = 1 /\ PostCount = 1 /\ FailureReported)

(***************************************************************************)
(* C14.  Within one process the log calls of invocations in flight         *)
(* together never interleave: each runs its size check, compaction and     *)
(* append as one step.  So, whatever the interleaving of the invocations,  *)
(* the file is at every moment a tail of the sequence of all entries in    *)
(* the order their log calls started: entries are in call order with none  *)
(* missing in between, and the entry of the latest call is at the end, in  *)
(* full.  A compaction removes older lines whoever wrote them; it never    *)
(* removes or overwrites an entry written after its own size check.        *)
(***************************************************************************)
IsSuffix(s, t) ==
    Len(s) <= Len(t) /\ SubSeq(t, Len(t) - Len(s) + 1, Len(t)) = s

====
